---- MODULE Spec2Model ----
(***************************************************************************)
(* The batched Hager-Zhang line search of                                  *)
(* tensorflow_probability/python/optimizer/linesearch/hager_zhang.py.      *)
(*                                                                         *)
(* Floating point numbers are modelled on an integer grid: neighbouring    *)
(* representable values are neighbouring integers, so tf.math.nextafter    *)
(* moves by one.  Every non-finite value (nan, +-inf) is the one value     *)
(* NaN; comparisons with it are false and arithmetic on it gives NaN.      *)
(* The oracle value_and_gradients_function is a pure function of the step: *)
(* each batch member has a line function, drawn in Init from Cases.        *)
(* The primitives of hager_zhang_lib (bracket, secant2, update) are        *)
(* modelled by their contracts: a nondeterministic choice over the         *)
(* intervals, flags and counts the contract allows.                        *)
(***************************************************************************)
EXTENDS Integers, FiniteSets, Sequences, TLC

\* ------------------------------------------------------------ bounds
\* Largest step on the grid.
XMax == 3
\* Largest max_iterations the caller passes.
MaxIter == 2
\* Mantissa bits of the working float type: machine epsilon is 2^-MantissaBits.
MantissaBits == 2

\* The batch: the shape [n] of every tensor of the call.  Two members: the member
\* a property is about and another one that is advanced, stopped or failed
\* beside it.
Batch == {1, 2}

\* ------------------------------------------------------------ numbers
NaN == -99

IsFiniteNum(v) == v # NaN

Lt(a, b) == IsFiniteNum(a) /\ IsFiniteNum(b) /\ a < b

Ge(a, b) == IsFiniteNum(a) /\ IsFiniteNum(b) /\ a >= b

Sub(a, b) == IF IsFiniteNum(a) /\ IsFiniteNum(b) THEN a - b ELSE NaN

\* (a + b) / 2, rounded to the grid.
Midpoint(a, b) == IF IsFiniteNum(a) /\ IsFiniteNum(b) THEN (a + b) \div 2 ELSE NaN

\* tf.math.nextafter(x, y): the representable value next to x towards y.
NextAfter(x, y) ==
  IF ~IsFiniteNum(x) \/ ~IsFiniteNum(y) THEN NaN
  ELSE IF y > x THEN x + 1
  ELSE IF y < x THEN x - 1
  ELSE x

_very_close(x, y) == Ge(NextAfter(x, y), y)

\* ------------------------------------------------------------ parameters
\* shrinkage_param (gamma) as the fraction ShrinkageNum / ShrinkageDen = 0.66.
ShrinkageNum == 66
ShrinkageDen == 100

\* step_size_shrink_param as the fraction 1 / StepShrinkDen, the caller's choice.
StepShrinkDen == 2

\* x * step_size_shrink_param, rounded to the grid (away from zero).
ShrinkStep(x) ==
  IF IsFiniteNum(x) THEN (x + StepShrinkDen - 1) \div StepShrinkDen ELSE NaN

\* np.ceil(-np.log2(_machine_eps(dtype))), with eps = 2^-MantissaBits.
iter_max == MantissaBits

\* ------------------------------------------------------------ the oracle
\* A line function f(x) = 2 * |x - Vertex|.  It is non-finite at the steps from
\* lim on (overflow) and at the steps in poles; asc says that the derivative at
\* zero is positive (not a descent direction).
Vertex == XMax - 1

Smooth == [lim |-> XMax + 1, poles |-> {}, asc |-> FALSE]

\* The line functions and initial steps of a member.  Each input is valid, or
\* invalid for one reason, or needs a repair of its step.
Cases ==
  { [prof |-> Smooth, step |-> Vertex],
    [prof |-> Smooth, step |-> 0],
    [prof |-> Smooth, step |-> NaN],
    [prof |-> [Smooth EXCEPT !.asc = TRUE], step |-> Vertex],
    [prof |-> [Smooth EXCEPT !.lim = 0], step |-> Vertex],
    [prof |-> [Smooth EXCEPT !.lim = 1], step |-> Vertex],
    [prof |-> [Smooth EXCEPT !.poles = {Vertex}], step |-> Vertex] }

Abs(v) == IF v < 0 THEN 0 - v ELSE v

FVal(p, x) == 2 * Abs(x - Vertex)

DVal(p, x) ==
  IF x = 0 THEN (IF p.asc THEN 1 ELSE -1)
  ELSE IF x < Vertex THEN -1 ELSE 1

NoPoint == [x |-> NaN, f |-> NaN, df |-> NaN]

\* value_and_gradients_function on one batch member.
Eval(p, x) ==
  IF ~IsFiniteNum(x) \/ x >= p.lim \/ x \in p.poles
  THEN [x |-> x, f |-> NaN, df |-> NaN]
  ELSE [x |-> x, f |-> FVal(p, x), df |-> DVal(p, x)]

\* hzl.is_finite(val): value and derivative are both finite.
is_finite(val) == IsFiniteNum(val.f) /\ IsFiniteNum(val.df)

\* hzl.val_where(cond, tval, fval), elementwise.
val_where(cond, tval, fval) == [i \in Batch |-> IF cond[i] THEN tval[i] ELSE fval[i]]

reduce_any(mask) == \E i \in Batch : mask[i]

\* ------------------------------------------------------------ state
VARIABLES
  pc,              \* "start", "fix", "bracket", "loop", "done"
  max_iterations,  \* argument
  converged_arg,   \* argument converged (None is the all-false mask)
  step,            \* the initial step: initial_step_size, or value_at_initial_step.x
  initial_step_size, \* argument initial_step_size
  given_initial,   \* value_at_initial_step was supplied
  given_zero,      \* value_at_zero was supplied
  prof,            \* the line function of each batch member
  val_0, val_c,    \* evaluations at zero and at the (repaired) initial step
  prepare_evals,
  init_converged, failed, active,
  fix_i, to_fix,   \* loop variables of _fix_step_size
  res,             \* the HagerZhangLineSearchResult threaded through the search
  calls,           \* oracle invocations made so far
  trips,           \* trips of the main search loop made so far
  bracket_ran,     \* _bracket_and_search was entered
  own_iters,       \* per member: bracketing trips and loop trips it was active in
  exhausted,       \* per member: marked failed by exhausted_iterations alone
  nonfinite_call,  \* the oracle was invoked with a non-finite step in some position
  last             \* the intermediate values of the last trip of the main loop

vars == << pc, max_iterations, converged_arg, step, initial_step_size, given_initial,
           given_zero, prof,
           val_0, val_c, prepare_evals, init_converged, failed, active, fix_i, to_fix,
           res, calls, trips, bracket_ran, own_iters, exhausted, nonfinite_call,
           last >>

inputs == << max_iterations, converged_arg, step, initial_step_size, given_initial,
            given_zero, prof >>

AllFalse == [i \in Batch |-> FALSE]

NoPoints == [i \in Batch |-> NoPoint]

HagerZhangLineSearchResult(c, fl, fe, it, l, r) ==
  [converged |-> c, failed |-> fl, func_evals |-> fe, iterations |-> it,
   left |-> l, right |-> r]

\* No trip of the main loop was made yet.
NoTrip == [trip |-> FALSE]

Init ==
  /\ pc = "start"
  /\ max_iterations \in 0..MaxIter
  /\ converged_arg \in [Batch -> BOOLEAN]
  /\ \E c \in [Batch -> Cases] :
       /\ step = [i \in Batch |-> c[i].step]
       /\ prof = [i \in Batch |-> c[i].prof]
  /\ given_initial \in BOOLEAN
  /\ given_zero \in BOOLEAN
  /\ initial_step_size \in
       IF given_initial THEN {step, [i \in Batch |-> XMax]} ELSE {step}
  /\ val_0 = NoPoints
  /\ val_c = NoPoints
  /\ prepare_evals = 0
  /\ init_converged = AllFalse
  /\ failed = AllFalse
  /\ active = AllFalse
  /\ fix_i = 0
  /\ to_fix = AllFalse
  /\ res = HagerZhangLineSearchResult(AllFalse, AllFalse, 0, 0, NoPoints, NoPoints)
  /\ calls = 0
  /\ trips = 0
  /\ bracket_ran = FALSE
  /\ own_iters = [i \in Batch |-> 0]
  /\ exhausted = AllFalse
  /\ nonfinite_call = FALSE
  /\ last = NoTrip

\* ------------------------------------------------------------ _prepare_args
\* The oracle on the whole batch.
value_and_gradients_function(xs) == [i \in Batch |-> Eval(prof[i], xs[i])]

\* eval_count of _prepare_args: one per evaluation the caller did not supply.
PrepareEvalCount == (IF given_initial THEN 0 ELSE 1) + (IF given_zero THEN 0 ELSE 1)

\* An optional argument that was not supplied: a batch of no evaluations.
None == << >>

\* The arguments value_at_initial_step and value_at_zero: what the caller
\* already knows of the oracle, at the step of its choice and at zero.
value_at_initial_step ==
  IF given_initial THEN value_and_gradients_function(step) ELSE None

value_at_zero ==
  IF given_zero THEN value_and_gradients_function([i \in Batch |-> 0]) ELSE None

PrepareArgsEvaluatesAnyway(init_step, val_initial, val_zero) ==
  [val_0 |-> value_and_gradients_function([i \in Batch |-> 0]),
   val_initial |-> value_and_gradients_function(init_step),
   eval_count |-> PrepareEvalCount,
   called |-> << init_step, [i \in Batch |-> 0] >>]

\* _prepare_args (lines 636-651); f_lim is not modelled.  called lists the
\* batches of steps handed to the oracle.
_prepare_args(init_step, val_initial, val_zero) ==
  LET vi == IF val_initial = None THEN value_and_gradients_function(init_step)
            ELSE val_initial
      x_0 == [i \in Batch |-> 0]
      v0 == IF val_zero = None THEN value_and_gradients_function(x_0) ELSE val_zero
  IN [val_0 |-> v0,
      val_initial |-> vi,
      eval_count |-> PrepareEvalCount,
      called |-> (IF val_initial = None THEN << init_step >> ELSE << >>)
                 \o (IF val_zero = None THEN << x_0 >> ELSE << >>)]

\* ------------------------------------------------------------ hager_zhang
ValidInputsNoSignCheck(v0, vi) ==
  [i \in Batch |-> is_finite(v0[i]) /\ Lt(v0[i].df, 0) /\ IsFiniteNum(vi[i].x)]

valid_inputs(v0, vi) ==
  [i \in Batch |-> is_finite(v0[i]) /\ Lt(v0[i].df, 0)
                    /\ IsFiniteNum(vi[i].x) /\ Lt(0, vi[i].x)]

\* Some position of a batch of steps handed to the oracle is non-finite.
NonFiniteStep(xs) == \E i \in Batch : ~IsFiniteNum(xs[i])

\* Lines 253-269 and the entry of _fix_step_size (line 319).
Prepare ==
  /\ pc = "start"
  /\ LET args == _prepare_args(initial_step_size, value_at_initial_step, value_at_zero)
         vi == args.val_initial
         v0 == args.val_0
         valid == valid_inputs(v0, vi)
         act == [i \in Batch |-> ~converged_arg[i] /\ valid[i]]
     IN /\ val_c' = vi
        /\ val_0' = v0
        /\ prepare_evals' = args.eval_count
        /\ calls' = calls + Len(args.called)
        /\ nonfinite_call' = \E k \in 1..Len(args.called) : NonFiniteStep(args.called[k])
        /\ init_converged' = converged_arg
        /\ failed' = [i \in Batch |-> ~converged_arg[i] /\ ~valid[i]]
        /\ active' = act
        /\ to_fix' = [i \in Batch |-> act[i] /\ ~is_finite(vi[i])]
        /\ fix_i' = 0
  /\ pc' = "fix"
  /\ UNCHANGED << inputs, res, trips, bracket_ran, own_iters, exhausted, last >>

\* ------------------------------------------------------------ _fix_step_size
FixCondNoMask == fix_i < iter_max

\* _cond (lines 308-310).
FixCond == fix_i < iter_max /\ reduce_any(to_fix)

StillToFixUnmasked(tf, next_val_c) == [i \in Batch |-> ~is_finite(next_val_c[i])]

\* still_to_fix (line 316).
still_to_fix(tf, next_val_c) == [i \in Batch |-> tf[i] /\ ~is_finite(next_val_c[i])]

\* _body: one trip of the repair loop.
FixStep ==
  /\ pc = "fix"
  /\ FixCond
  /\ LET next_c == [i \in Batch |-> IF to_fix[i] THEN ShrinkStep(val_c[i].x)
                                     ELSE val_c[i].x]
         next_val_c == value_and_gradients_function(next_c)
     IN /\ val_c' = next_val_c
        /\ to_fix' = still_to_fix(to_fix, next_val_c)
        /\ nonfinite_call' = (nonfinite_call \/ NonFiniteStep(next_c))
  /\ fix_i' = fix_i + 1
  /\ calls' = calls + 1
  /\ UNCHANGED << pc, inputs, val_0, prepare_evals, init_converged, failed, active,
                  res, trips, bracket_ran, own_iters, exhausted, last >>

\* right of init_interval (line 283).
InitRight(conv, v0, vc) == val_where(conv, v0, vc)

InitIntervalNoFixFailed ==
  HagerZhangLineSearchResult(
    init_converged,
    failed,
    prepare_evals + fix_i,
    0,
    val_0,
    InitRight(init_converged, val_0, val_c))

\* init_interval (lines 277-283): fix_step_evals is the repair loop's counter and
\* fix_failed its last to_fix.
init_interval ==
  HagerZhangLineSearchResult(
    init_converged,
    [i \in Batch |-> failed[i] \/ to_fix[i]],
    prepare_evals + fix_i,
    0,
    val_0,
    InitRight(init_converged, val_0, val_c))

InitActiveAll(iv) == [i \in Batch |-> TRUE]

\* init_active (line 292).
init_active(iv) == [i \in Batch |-> ~iv.failed[i] /\ ~iv.converged[i]]

\* The repair loop has ended; lines 277-296.
FixDone ==
  /\ pc = "fix"
  /\ ~FixCond
  /\ res' = init_interval
  /\ pc' = IF reduce_any(init_active(init_interval)) THEN "bracket" ELSE "done"
  /\ UNCHANGED << inputs, val_0, val_c, prepare_evals, init_converged, failed, active,
                  fix_i, to_fix, calls, trips, bracket_ran, own_iters, exhausted,
                  nonfinite_call, last >>

\* ------------------------------------------------------------ hzl contracts
Grid == 0..XMax

\* The brackets [l, r] inside [lo, hi] with finite evaluations at both ends.
FiniteBrackets(p, lo, hi) ==
  { b \in (lo..hi) \X (lo..hi) :
      b[1] <= b[2] /\ is_finite(Eval(p, b[1])) /\ is_finite(Eval(p, b[2])) }

\* Some step of [lo, hi] evaluates to a non-finite value.
HasNonFinite(p, lo, hi) == \E x \in lo..hi : ~is_finite(Eval(p, x))

\* hzl.bracket on one member: a stopped member is returned as it is; an active
\* one uses k expansion trips within the budget and ends with a bracket, or fails
\* on a non-finite evaluation of the expanded right end.
BracketMember(i, iv, budget) ==
  IF iv.failed[i] \/ iv.converged[i]
  THEN { [left |-> iv.left[i], right |-> iv.right[i], failed |-> iv.failed[i],
          k |-> 0] }
  ELSE { [left |-> Eval(prof[i], b[1]), right |-> Eval(prof[i], b[2]),
          failed |-> FALSE, k |-> k] :
           b \in FiniteBrackets(prof[i], 0, XMax), k \in 0..budget }
       \cup
       { [left |-> iv.left[i], right |-> Eval(prof[i], x), failed |-> TRUE, k |-> k] :
           x \in { y \in Grid : ~is_finite(Eval(prof[i], y)) }, k \in 1..budget }

Max(S) == CHOOSE m \in S : \A n \in S : n <= m

\* The batches m with m[i] in S[i] for every member i <= n.
RECURSIVE Members(_, _)
Members(S, n) ==
  IF n = 0 THEN { << >> }
  ELSE { Append(t, s) : t \in Members(S, n - 1), s \in S[n] }

\* hzl.bracket: the iteration and evaluation counters are shared by the batch;
\* each expansion trip is one oracle call.
bracket(iv, maxit) ==
  { [iteration |-> iv.iterations + Max({ m[i].k : i \in Batch }),
     failed    |-> [i \in Batch |-> m[i].failed],
     num_evals |-> iv.func_evals + Max({ m[i].k : i \in Batch }),
     left      |-> [i \in Batch |-> m[i].left],
     right     |-> [i \in Batch |-> m[i].right],
     own       |-> [i \in Batch |-> m[i].k]] :
       m \in Members([i \in Batch |-> BracketMember(i, iv, maxit)], Cardinality(Batch)) }

\* hzl.secant2 on one member: a stopped member is returned as it is; an active
\* one converges at a point of its bracket (left = right = that point), fails on
\* a non-finite candidate, or gets a bracket inside the old one.
Secant2Member(i, iv) ==
  IF iv.failed[i] \/ iv.converged[i]
  THEN { [left |-> iv.left[i], right |-> iv.right[i], failed |-> iv.failed[i],
          converged |-> iv.converged[i]] }
  ELSE LET lo == iv.left[i].x
           hi == iv.right[i].x
       IN { [left |-> Eval(prof[i], b[1]), right |-> Eval(prof[i], b[2]),
             failed |-> FALSE, converged |-> FALSE] :
              b \in FiniteBrackets(prof[i], lo, hi) }
          \cup
          { [left |-> Eval(prof[i], c), right |-> Eval(prof[i], c),
             failed |-> FALSE, converged |-> TRUE] :
              c \in { y \in lo..hi : is_finite(Eval(prof[i], y)) } }
          \cup
          (IF HasNonFinite(prof[i], lo, hi)
           THEN { [left |-> iv.left[i], right |-> iv.right[i], failed |-> TRUE,
                   converged |-> FALSE] }
           ELSE {})

\* The oracle calls one secant2 makes.
Secant2Evals == {1, 2}

\* hzl.secant2: num_evals is cumulative.
secant2(iv) ==
  { [converged |-> [i \in Batch |-> m[i].converged],
     failed    |-> [i \in Batch |-> m[i].failed],
     num_evals |-> iv.func_evals + e,
     left      |-> [i \in Batch |-> m[i].left],
     right     |-> [i \in Batch |-> m[i].right]] :
       m \in Members([i \in Batch |-> Secant2Member(i, iv)], Cardinality(Batch)),
       e \in Secant2Evals }

\* hzl.update on one member: outside the active mask the bracket is returned as
\* it is; inside, the trial point replaces one end of the bracket, or the
\* bracket is bisected once more (one more oracle call), which can fail.
UpdateMember(i, l, r, trial, act) ==
  IF ~act[i]
  THEN { [left |-> l[i], right |-> r[i], failed |-> FALSE, e |-> 0] }
  ELSE { [left |-> l[i], right |-> trial[i], failed |-> FALSE, e |-> 0],
         [left |-> trial[i], right |-> r[i], failed |-> FALSE, e |-> 0] }
       \cup
       LET m == Eval(prof[i], Midpoint(l[i].x, trial[i].x))
       IN IF is_finite(m)
          THEN { [left |-> l[i], right |-> m, failed |-> FALSE, e |-> 1],
                 [left |-> m, right |-> trial[i], failed |-> FALSE, e |-> 1] }
          ELSE { [left |-> l[i], right |-> trial[i], failed |-> TRUE, e |-> 1] }

\* hzl.update: the iteration and evaluation counts it reports are those of its
\* own bisection, shared by the batch.
update(l, r, trial, act) ==
  { [iteration |-> Max({ m[i].e : i \in Batch }),
     failed    |-> [i \in Batch |-> m[i].failed],
     num_evals |-> Max({ m[i].e : i \in Batch }),
     left      |-> [i \in Batch |-> m[i].left],
     right     |-> [i \in Batch |-> m[i].right]] :
       m \in Members([i \in Batch |-> UpdateMember(i, l, r, trial, act)], Cardinality(Batch)) }

\* ------------------------------------------------------------ _bracket_and_search
\* converged (lines 400-401).
BracketConverged(iv, br) ==
  [i \in Batch |-> iv.converged[i] \/ _very_close(br.left[i].x, br.right[i].x)]

ExhaustedIterationsNever(conv, br, maxit) == AllFalse

ExhaustedIterationsStrict(conv, br, maxit) ==
  [i \in Batch |-> ~conv[i] /\ br.iteration > maxit]

\* exhausted_iterations (lines 404-405).
exhausted_iterations(conv, br, maxit) ==
  [i \in Batch |-> ~conv[i] /\ br.iteration >= maxit]

\* line_search_args (lines 407-413).
line_search_args(iv, br, maxit) ==
  LET conv == BracketConverged(iv, br)
      exh == exhausted_iterations(conv, br, maxit)
  IN HagerZhangLineSearchResult(
       conv,
       [i \in Batch |-> br.failed[i] \/ exh[i]],
       br.num_evals,
       br.iteration,
       br.left,
       br.right)

LoopCondNoBudget(curr, maxit) ==
  reduce_any([i \in Batch |-> ~(curr.converged[i] \/ curr.failed[i])])

LoopCondNoActive(curr, maxit) == curr.iterations < maxit

\* _loop_cond (lines 483-487).
_loop_cond(curr, maxit) ==
  /\ curr.iterations < maxit
  /\ reduce_any([i \in Batch |-> ~(curr.converged[i] \/ curr.failed[i])])

\* The while loop of lines 539-543 tests _loop_cond before every trip: the
\* control point after a step that leaves curr is the next trip or the return.
WhileLoop(curr, maxit) == IF _loop_cond(curr, maxit) THEN "loop" ELSE "done"

\* Lines 397-418: hzl.bracket, the arguments of the main loop, and the entry of
\* the loop.
Bracket ==
  /\ pc = "bracket"
  /\ \E br \in bracket(res, max_iterations) :
       /\ res' = line_search_args(res, br, max_iterations)
       /\ calls' = calls + (br.num_evals - res.func_evals)
       /\ own_iters' = [i \in Batch |-> own_iters[i] + br.own[i]]
       /\ exhausted' =
            [i \in Batch |->
               /\ ~br.failed[i]
               /\ exhausted_iterations(BracketConverged(res, br), br, max_iterations)[i]]
  /\ bracket_ran' = TRUE
  /\ pc' = WhileLoop(res', max_iterations)
  /\ UNCHANGED << inputs, val_0, val_c, prepare_evals, init_converged, failed, active,
                  fix_i, to_fix, trips, nonfinite_call, last >>

\* ------------------------------------------------------------ _line_search_inner_bisection
StillActiveUnmasked(act, val_mid) == [i \in Batch |-> is_finite(val_mid[i])]

\* still_active (line 556).
StillActive(act, val_mid) == [i \in Batch |-> act[i] /\ is_finite(val_mid[i])]

NewFailedNever(act, val_mid) == [i \in Batch |-> FALSE]

\* new_failed (line 557).
new_failed(act, val_mid) == [i \in Batch |-> act[i] /\ ~is_finite(val_mid[i])]

NextFuncEvalsUncounted(search_interval) == search_interval.func_evals

\* func_evals of next_inteval (line 560): the midpoint evaluation is one call.
NextFuncEvals(search_interval) == search_interval.func_evals + 1

\* Lines 552-577.  The result carries, next to the interval (iv), the oracle
\* calls made (calls), the steps handed to the oracle (midpoint), the mask the
\* bisection was asked for (needs), whether hzl.update was invoked (updated),
\* the active mask it was given (active) and the oracle calls it reports
\* (update_evals).
_line_search_inner_bisection(search_interval, act) ==
  LET midpoint == [i \in Batch |->
                     Midpoint(search_interval.left[i].x, search_interval.right[i].x)]
      val_mid == value_and_gradients_function(midpoint)
      still_active == StillActive(act, val_mid)
      next_inteval ==
        [search_interval EXCEPT
           !.failed = [i \in Batch |->
                         search_interval.failed[i] \/ new_failed(act, val_mid)[i]],
           !.func_evals = NextFuncEvals(search_interval)]
  IN IF reduce_any(still_active)
     THEN { [iv |-> HagerZhangLineSearchResult(
                      next_inteval.converged,
                      [i \in Batch |-> next_inteval.failed[i] \/ u.failed[i]],
                      next_inteval.func_evals + u.num_evals,
                      next_inteval.iterations + u.iteration,
                      u.left,
                      u.right),
             calls |-> 1 + u.num_evals,
             bisected |-> TRUE,
             midpoint |-> midpoint,
             needs |-> act,
             updated |-> TRUE,
             active |-> still_active,
             update_evals |-> u.num_evals] :
              u \in update(next_inteval.left, next_inteval.right, val_mid, still_active) }
     ELSE { [iv |-> next_inteval, calls |-> 1, bisected |-> TRUE, midpoint |-> midpoint,
             needs |-> act, updated |-> FALSE, active |-> AllFalse,
             update_evals |-> 0] }

\* ------------------------------------------------------------ _line_search_after_bracketing
should_check_shrinkage(s2) == [i \in Batch |-> ~(s2.converged[i] \/ s2.failed[i])]

\* new_width < old_width * shrinkage_param (lines 506-508).
sufficient_shrinkage(curr, s2) ==
  [i \in Batch |->
     LET old_width == Sub(curr.right[i].x, curr.left[i].x)
         new_width == Sub(s2.right[i].x, s2.left[i].x)
     IN IsFiniteNum(old_width) /\ IsFiniteNum(new_width)
        /\ new_width * ShrinkageDen < old_width * ShrinkageNum]

\* Lines 509-511.
func_is_flat(curr, s2) ==
  [i \in Batch |-> /\ _very_close(curr.left[i].f, curr.right[i].f)
                    /\ _very_close(s2.left[i].f, s2.right[i].f)]

\* Lines 513-514.
new_converged(curr, s2) ==
  [i \in Batch |-> /\ should_check_shrinkage(s2)[i]
                    /\ sufficient_shrinkage(curr, s2)[i]
                    /\ func_is_flat(curr, s2)[i]]

NeedsInnerBisectUnmasked(curr, s2) ==
  [i \in Batch |-> ~sufficient_shrinkage(curr, s2)[i]]

\* Line 515.
needs_inner_bisect(curr, s2) ==
  [i \in Batch |-> should_check_shrinkage(s2)[i] /\ ~sufficient_shrinkage(curr, s2)[i]]

NoBisection == [i \in Batch |-> NaN]

\* The result of a branch that does not call _line_search_inner_bisection.
NotBisected(iv) ==
  [iv |-> iv, calls |-> 0, bisected |-> FALSE, midpoint |-> NoBisection,
   needs |-> AllFalse, updated |-> FALSE, active |-> AllFalse, update_evals |-> 0]

\* _do_check_shrinkage (lines 504-528).
_do_check_shrinkage(curr, s2) ==
  LET inner_bisect_args ==
        [s2 EXCEPT !.converged =
           [i \in Batch |-> s2.converged[i] \/ new_converged(curr, s2)[i]]]
  IN IF reduce_any(needs_inner_bisect(curr, s2))
     THEN _line_search_inner_bisection(inner_bisect_args, needs_inner_bisect(curr, s2))
     ELSE { NotBisected(inner_bisect_args) }

NextIterationsTwice(curr) == curr.iterations + 2

\* iterations of secant2_result (line 497).
NextIterations(curr) == curr.iterations + 1

\* interval_shrunk (lines 535-536).
interval_shrunk(next_args) ==
  [i \in Batch |-> ~next_args.failed[i]
                    /\ _very_close(next_args.left[i].x, next_args.right[i].x)]

TripConvergedNoCollapse(next_args) == next_args.converged

\* Lines 535-537: the converged mask a trip returns.
TripConverged(next_args) ==
  [i \in Batch |-> next_args.converged[i] \/ interval_shrunk(next_args)[i]]

\* _loop_body (lines 489-537).  A result carries the returned interval (iv)
\* and the intermediate values of the trip: curr_interval (curr), secant2_result
\* (secant2), next_args, and what the bisection branch did.
_loop_body(curr) ==
  UNION {
    LET secant2_result ==
          HagerZhangLineSearchResult(
            raw.converged, raw.failed, raw.num_evals, NextIterations(curr),
            raw.left, raw.right)
        nexts == IF reduce_any(should_check_shrinkage(secant2_result))
                 THEN _do_check_shrinkage(curr, secant2_result)
                 ELSE { NotBisected(secant2_result) }
    IN { [iv |-> [n.iv EXCEPT !.converged = TripConverged(n.iv)],
          calls |-> (raw.num_evals - curr.func_evals) + n.calls,
          trip |-> TRUE,
          curr |-> curr,
          secant2 |-> secant2_result,
          next_args |-> n.iv,
          bisected |-> n.bisected,
          midpoint |-> n.midpoint,
          needs |-> n.needs,
          updated |-> n.updated,
          active |-> n.active,
          update_evals |-> n.update_evals] : n \in nexts }
    : raw \in secant2(curr) }

\* One trip of the while loop of lines 539-543.
LoopTrip ==
  /\ pc = "loop"
  /\ _loop_cond(res, max_iterations)
  /\ \E t \in _loop_body(res) :
       /\ res' = t.iv
       /\ calls' = calls + t.calls
       /\ last' = t
       /\ nonfinite_call' = (nonfinite_call \/ (t.bisected /\ NonFiniteStep(t.midpoint)))
  /\ pc' = WhileLoop(res', max_iterations)
  /\ trips' = trips + 1
  /\ own_iters' = [i \in Batch |->
                      IF res.converged[i] \/ res.failed[i] THEN own_iters[i]
                      ELSE own_iters[i] + 1]
  /\ UNCHANGED << inputs, val_0, val_c, prepare_evals, init_converged, failed,
                  active, fix_i, to_fix, bracket_ran, exhausted >>

Next == Prepare \/ FixStep \/ FixDone \/ Bracket \/ LoopTrip

Spec == Init /\ [][Next]_vars

\* ------------------------------------------------------------ claims
\* The search record exists from init_interval on.
HasInterval == pc \in {"bracket", "loop", "done"}

Stopped(iv, i) == iv.converged[i] \/ iv.failed[i]

\* C1: in every state of a call (after validation, after repair, after
\* bracketing, after every trip, in the returned record) no member is converged
\* and failed at the same time.
C1_ConvergedFailedExclusive ==
  \A i \in Batch :
    /\ pc = "fix" => ~(init_converged[i] /\ (failed[i] \/ to_fix[i]))
    /\ HasInterval => ~(res.converged[i] /\ res.failed[i])

\* C2: once converged or failed is true for a member, the flag stays true in
\* every later stage and trip, and the member's left and right stay as they are.
C2_MonotonicLatch ==
  [][\A i \in Batch :
       /\ (pc = "fix" /\ pc' # "fix") =>
            /\ init_converged[i] => res'.converged[i]
            /\ failed[i] => res'.failed[i]
       /\ HasInterval =>
            /\ res.converged[i] => res'.converged[i]
            /\ res.failed[i] => res'.failed[i]
            /\ Stopped(res, i) =>
                 res'.left[i] = res.left[i] /\ res'.right[i] = res.right[i]]_vars

\* C2's case: a member stopped after the first trip of a search that made a
\* second trip for another member.
C2_Witness ==
  /\ pc = "done"
  /\ trips = 2
  /\ res.iterations = 2
  /\ \E i, j \in Batch : /\ Stopped(res, i)
                          /\ own_iters[i] = 1
                          /\ own_iters[j] = 2

\* C3: in the returned record every member is converged or failed.
C3_AllStoppedOnReturn ==
  pc = "done" => \A i \in Batch : Stopped(res, i)

\* C4: in the returned record left and right of a converged member are the same
\* evaluation point.
C4_ConvergedLeftEqualsRight ==
  pc = "done" => \A i \in Batch : res.converged[i] => res.left[i] = res.right[i]

\* A valid input with a line function that is finite everywhere (and so bounded
\* below): descent direction at zero, finite positive initial step.
WellBehaved(i) ==
  /\ prof[i].lim > XMax
  /\ prof[i].poles = {}
  /\ ~prof[i].asc
  /\ IsFiniteNum(step[i])
  /\ step[i] > 0

CanStep ==
  \/ pc = "start"
  \/ pc = "fix"
  \/ pc = "bracket" /\ \A i \in Batch : BracketMember(i, res, max_iterations) # {}
  \/ /\ pc = "loop"
     /\ res.iterations < max_iterations
     /\ \E i \in Batch : ~Stopped(res, i)
     /\ \A i \in Batch : Secant2Member(i, res) # {}

C6_PreConvergedReportsInitialStep ==
  pc = "done" =>
    \A i \in Batch :
      converged_arg[i] =>
        /\ res.converged[i]
        /\ ~res.failed[i]
        /\ res.left[i] = Eval(prof[i], step[i])
        /\ res.right[i] = Eval(prof[i], step[i])

\* The validity predicate of C7, on the arguments.
InvalidInput(i) ==
  LET zero == Eval(prof[i], 0)
  IN \/ ~IsFiniteNum(zero.f) \/ ~IsFiniteNum(zero.df)
     \/ (IsFiniteNum(zero.df) /\ zero.df >= 0)
     \/ ~IsFiniteNum(step[i])
     \/ step[i] <= 0

\* C7: validation marks a member failed exactly when it is not supplied as
\* converged and its input is invalid, and a member failed by validation is
\* failed in the returned record.
C7_ValidationFailure ==
  \A i \in Batch :
    /\ pc # "start" => (failed[i] <=> (~converged_arg[i] /\ InvalidInput(i)))
    /\ pc = "done" => (failed[i] => res.failed[i])

\* C7's case: a member failed by validation went through a search with a trip.
C7_Witness ==
  /\ pc = "done"
  /\ trips >= 1
  /\ \E i \in Batch : failed[i] /\ res.failed[i] /\ step[i] = 0

\* No member is active after validation and repair.
NoneActiveAfterRepair ==
  \A i \in Batch : init_converged[i] \/ failed[i] \/ to_fix[i]

\* C8: when no member is active after validation and repair, bracketing and the
\* search loop do not run: no oracle call after repair, iterations = 0 and
\* func_evals = preparation evaluations + repair evaluations.
C8_NoSearchWhenNoneActive ==
  (pc = "done" /\ NoneActiveAfterRepair) =>
    /\ ~bracket_ran
    /\ trips = 0
    /\ res.iterations = 0
    /\ res.func_evals = prepare_evals + fix_i
    /\ calls = prepare_evals + fix_i

\* C8's case: the repair loop ran, failed, and left no member active.
C8_Witness ==
  /\ pc = "done"
  /\ NoneActiveAfterRepair
  /\ fix_i >= 1
  /\ \E i \in Batch : to_fix[i]
  /\ \E i \in Batch : failed[i] /\ prof[i].asc

\* C9: with max_iterations = 0 and a member active after validation and
\* repair, the call returns iterations = 0 after zero trips, and every member
\* that was active and whose bracket is not collapsed is failed.
C9_ZeroBudget ==
  (pc = "done" /\ max_iterations = 0 /\ ~NoneActiveAfterRepair) =>
    /\ res.iterations = 0
    /\ trips = 0
    /\ \A i \in Batch :
         (active[i] /\ ~to_fix[i] /\ ~_very_close(res.left[i].x, res.right[i].x))
           => res.failed[i]

\* C9's case: an active member returned failed under a budget of zero.
C9_Witness ==
  /\ pc = "done"
  /\ max_iterations = 0
  /\ \E i \in Batch : active[i] /\ ~to_fix[i] /\ res.failed[i] /\ ~res.converged[i]

\* C10: the outcome of a member depends on its own input and oracle values
\* only: a member is failed by exhaustion, or returned unresolved, only when
\* the trips made on its own behalf (bracketing trips it needed and loop trips
\* it was active in) used up max_iterations.
C10_ExhaustionIsLocal ==
  pc = "done" =>
    \A i \in Batch :
      (active[i] /\ ~to_fix[i] /\ (exhausted[i] \/ ~Stopped(res, i)))
        => own_iters[i] >= max_iterations

\* ------------------------------------------------------------ a trip, in the claims' words
\* secant2 left member i neither converged nor failed in the last trip.
Checked(i) == ~(last.secant2.converged[i] \/ last.secant2.failed[i])

OldWidth(i) == Sub(last.curr.right[i].x, last.curr.left[i].x)

NewWidth(i) == Sub(last.secant2.right[i].x, last.secant2.left[i].x)

\* new_width < shrinkage_param * old_width.
Shrunk(i) ==
  /\ IsFiniteNum(OldWidth(i)) /\ IsFiniteNum(NewWidth(i))
  /\ NewWidth(i) * ShrinkageDen < OldWidth(i) * ShrinkageNum

UnderShrunk(i) == ~Shrunk(i)

\* Two values differ by at most one representable step.
WithinOneStep(a, b) == IsFiniteNum(a) /\ IsFiniteNum(b) /\ Abs(a - b) <= 1

\* The function is flat on the old and on the new interval of the last trip.
Flat(i) ==
  /\ WithinOneStep(last.curr.left[i].f, last.curr.right[i].f)
  /\ WithinOneStep(last.secant2.left[i].f, last.secant2.right[i].f)

\* The oracle calls the last trip issued itself, beyond those secant2 and
\* update report.
ExtraCalls ==
  last.calls - (last.secant2.func_evals - last.curr.func_evals) - last.update_evals

\* C11: in a trip, a member that secant2 left neither converged nor failed and
\* whose interval is under-shrunk is marked converged without a bisection on its
\* behalf when the function is flat on the old and the new interval, and
\* otherwise the trip issues exactly one extra oracle call, the bisection
\* midpoint.
C11_ShrinkageOrFlatness ==
  last.trip =>
    \A i \in Batch :
      (Checked(i) /\ UnderShrunk(i)) =>
        IF Flat(i)
        THEN res.converged[i] /\ ~last.needs[i]
        ELSE last.bisected /\ last.needs[i] /\ ExtraCalls = 1

\* ------------------------------------------------------------ step-size repair
\* Member i is active (valid input, not supplied as converged) and its initial
\* evaluation is non-finite.
NeedsRepair(i) ==
  /\ ~converged_arg[i]
  /\ ~InvalidInput(i)
  /\ ~is_finite(Eval(prof[i], step[i]))

RepairEnded == pc \in {"bracket", "loop", "done"}

\* C12: the repair loop makes at most iter_max trips; when it has ended, a
\* member that needed repair has a finite evaluation at its shrunk step and is
\* not failed by repair, or is still non-finite after iter_max trips and failed;
\* a member that did not need repair is not failed by repair.
C12_RepairTerminates ==
  /\ fix_i <= iter_max
  /\ RepairEnded =>
       \A i \in Batch :
         /\ NeedsRepair(i) =>
              \/ /\ is_finite(val_c[i])
                 /\ val_c[i] = Eval(prof[i], val_c[i].x)
                 /\ val_c[i].x <= step[i]
                 /\ ~to_fix[i]
              \/ /\ ~is_finite(val_c[i])
                 /\ fix_i = iter_max
                 /\ to_fix[i]
                 /\ res.failed[i]
         /\ ~NeedsRepair(i) => ~to_fix[i]

\* C12's case: in one call a member was repaired and another one was still
\* non-finite at the ceiling.
C12_Witness ==
  /\ RepairEnded
  /\ fix_i = iter_max
  /\ \E i, j \in Batch :
       /\ NeedsRepair(i) /\ to_fix[i] /\ res.failed[i]
       /\ NeedsRepair(j) /\ ~to_fix[j] /\ is_finite(val_c[j]) /\ val_c[j].x < step[j]

\* C13: when no active member has a non-finite initial evaluation the repair
\* makes no oracle call, returns the initial-step evaluation as it is and fails
\* nothing; in general it adds to func_evals the oracle calls it made, one per
\* trip.
C13_RepairNoOp ==
  /\ pc = "fix" => calls = prepare_evals + fix_i
  /\ (RepairEnded /\ ~bracket_ran) =>
       /\ res.func_evals = prepare_evals + fix_i
       /\ calls = res.func_evals
  /\ (pc # "start" /\ \A i \in Batch : ~NeedsRepair(i)) =>
       /\ fix_i = 0
       /\ val_c = [i \in Batch |-> Eval(prof[i], step[i])]
       /\ to_fix = AllFalse

\* C13's case: the repair was passed with every member invalid or supplied as
\* converged, one of them with a non-finite initial evaluation.
C13_Witness ==
  /\ RepairEnded
  /\ fix_i = 0
  /\ \A i \in Batch : converged_arg[i] \/ InvalidInput(i)
  /\ \E i \in Batch : converged_arg[i] /\ ~is_finite(Eval(prof[i], step[i]))
  /\ \E i \in Batch : InvalidInput(i) /\ ~converged_arg[i]

\* C14: the oracle is never invoked with a non-finite step in any batch
\* position, in input preparation, in step-size repair and at the bisection
\* midpoint.
C14_OracleStepsFinite == ~nonfinite_call

\* C15: each trip of the main loop increases iterations by exactly 1, with or
\* without the bisection fallback.
C15_OneIterationPerTrip ==
  last.trip => res.iterations = last.curr.iterations + 1

\* C16: a trip is made only when iterations < max_iterations and some member is
\* neither converged nor failed; iterations increases on every trip, so there
\* are at most max_iterations trips; and no trip is made when every member is
\* converged or failed after bracketing.
C16_LoopTripsBounded ==
  /\ last.trip =>
       /\ last.curr.iterations < max_iterations
       /\ \E i \in Batch : ~Stopped(last.curr, i)
       /\ res.iterations > last.curr.iterations
  /\ trips <= max_iterations
  /\ (bracket_ran /\ trips = 0 /\ \A i \in Batch : Stopped(res, i)) => pc = "done"
  /\ (pc = "loop") =>
       res.iterations < max_iterations /\ \E i \in Batch : ~Stopped(res, i)

\* C16's case: the loop was ended by the budget after max_iterations trips,
\* with a member still active.
C16_Witness ==
  /\ pc = "done"
  /\ trips >= 1
  /\ trips = max_iterations
  /\ \E i \in Batch : ~Stopped(res, i)

\* C17: in a trip, for a member that secant2 left neither converged nor failed
\* and whose new width is below shrinkage_param times the old width, the result
\* of secant2 is accepted as it is: left, right, converged and failed after the
\* shrinkage check are those of secant2, and no bisection is applied to it.
C17_SufficientShrinkAccepted ==
  last.trip =>
    \A i \in Batch :
      (Checked(i) /\ Shrunk(i)) =>
        /\ last.next_args.left[i] = last.secant2.left[i]
        /\ last.next_args.right[i] = last.secant2.right[i]
        /\ last.next_args.converged[i] = last.secant2.converged[i]
        /\ last.next_args.failed[i] = last.secant2.failed[i]
        /\ ~last.needs[i]

\* The midpoint of the secant2 interval of the last trip, and whether its
\* evaluation is finite.
SecantMid(i) == Midpoint(last.secant2.left[i].x, last.secant2.right[i].x)

FiniteMid(i) == is_finite(Eval(prof[i], SecantMid(i)))

\* C18: a trip bisects exactly when some member needs it (left neither
\* converged nor failed by secant2, and under-shrunk); then the oracle is
\* evaluated once at the midpoint of the secant2 interval, a member that needs
\* bisection and whose midpoint evaluation is non-finite is failed and is not in
\* the active mask of update, and update is invoked only if some member that
\* needs bisection has a finite midpoint, with exactly those members active.
C18_BisectionFallback ==
  last.trip =>
    /\ last.bisected <=> \E i \in Batch : Checked(i) /\ UnderShrunk(i)
    /\ last.bisected =>
         /\ last.needs = [i \in Batch |-> Checked(i) /\ UnderShrunk(i)]
         /\ last.midpoint = [i \in Batch |-> SecantMid(i)]
         /\ \A i \in Batch :
              (last.needs[i] /\ ~FiniteMid(i)) => res.failed[i] /\ ~last.active[i]
         /\ last.updated <=> \E i \in Batch : last.needs[i] /\ FiniteMid(i)
         /\ ExtraCalls = 1
    /\ \A i \in Batch :
         last.active[i] <=> (last.updated /\ last.needs[i] /\ FiniteMid(i))

\* C18's case: in one trip a member failed at its midpoint and update was
\* invoked for another one.
C18_Witness ==
  /\ last.trip
  /\ last.bisected
  /\ last.updated
  /\ \E i, j \in Batch :
       /\ last.needs[i] /\ ~FiniteMid(i) /\ res.failed[i]
       /\ last.needs[j] /\ last.active[j]

\* C19: at the end of a trip every member whose left.x and right.x are within
\* one step and which is not failed is converged, and a failed member is not
\* made converged by the collapse test.
C19_CollapseConverges ==
  last.trip =>
    \A i \in Batch :
      /\ (~res.failed[i] /\ WithinOneStep(res.left[i].x, res.right[i].x))
           => res.converged[i]
      /\ (res.failed[i] /\ ~last.next_args.converged[i]) => ~res.converged[i]

\* C19's case: a trip bisected, and the collapse test marked a member converged
\* that neither secant2 nor the shrinkage check had marked.
C19_Witness ==
  /\ last.trip
  /\ last.bisected
  /\ \E i \in Batch :
       /\ last.needs[i]
       /\ ~last.next_args.converged[i]
       /\ ~res.failed[i]
       /\ res.left[i].x # res.right[i].x
       /\ res.converged[i]

\* C20: the comparator of the flatness test is true exactly when its two
\* arguments differ by at most one representable step, whatever their order.
C20_VeryCloseSymmetric ==
  last.trip =>
    \A i \in Batch :
      Checked(i) =>
        LET a == last.curr.left[i].f
            b == last.curr.right[i].f
        IN /\ _very_close(a, b) = _very_close(b, a)
           /\ _very_close(a, b) <=> WithinOneStep(a, b)

\* The state right after bracketing: no trip of the main loop was made yet.
AfterBracketing == bracket_ran /\ trips = 0

\* C21: when bracketing returns with its iteration count >= max_iterations,
\* every member that is not converged then (not supplied as converged, ends of
\* the bracket not within one step) is failed, and the main loop makes no trip.
C21_BracketingCountsAgainstBudget ==
  /\ (AfterBracketing /\ res.iterations >= max_iterations) =>
       /\ pc = "done"
       /\ \A i \in Batch :
            (~converged_arg[i] /\ ~WithinOneStep(res.left[i].x, res.right[i].x))
              => res.failed[i]
  /\ last.trip => last.curr.iterations < max_iterations

\* C21's case: bracketing used up a budget of at least one iteration and a
\* member with an open bracket was failed by that alone.
C21_Witness ==
  /\ AfterBracketing
  /\ pc = "done"
  /\ max_iterations >= 1
  /\ res.iterations >= max_iterations
  /\ \E i \in Batch :
       /\ exhausted[i] /\ res.failed[i] /\ ~res.converged[i]
       /\ is_finite(res.left[i]) /\ is_finite(res.right[i])

\* C22: func_evals is the number of oracle invocations made so far in the
\* call, each batched invocation counted once; it does not decrease from stage
\* to stage or trip to trip, and a trip that bisects adds 1 for the midpoint and
\* what update reports.
C22_FuncEvalsCountsOracleCalls ==
  /\ HasInterval =>
       /\ res.func_evals = calls
       /\ res.func_evals >= prepare_evals + fix_i
  /\ last.trip =>
       /\ last.secant2.func_evals >= last.curr.func_evals
       /\ res.func_evals >= last.secant2.func_evals
       /\ last.bisected =>
            res.func_evals = last.secant2.func_evals + 1 + last.update_evals
       /\ ~last.bisected => res.func_evals = last.secant2.func_evals

\* C22's case: a call that repaired a step and, in a trip, bisected and had
\* update make an oracle call of its own.
C22_Witness ==
  /\ pc = "done"
  /\ fix_i >= 1
  /\ last.trip
  /\ last.bisected
  /\ last.update_evals = 1
  /\ res.func_evals = calls

\* The state right after input preparation.
Prepared == pc = "fix" /\ fix_i = 0

\* C23: input preparation invokes the oracle once for each of the two
\* evaluations the caller did not supply and never for a supplied one, its eval
\* count is the number of calls made, a supplied evaluation is used as it is and
\* initial_step_size is ignored when value_at_initial_step is supplied.
C23_PreparationEvaluatesWhatIsMissing ==
  /\ Prepared =>
       /\ prepare_evals = calls
       /\ calls = (IF given_initial THEN 0 ELSE 1) + (IF given_zero THEN 0 ELSE 1)
       /\ given_initial => val_c = value_at_initial_step
       /\ ~given_initial => val_c = [i \in Batch |-> Eval(prof[i], initial_step_size[i])]
       /\ given_initial => nonfinite_call = FALSE
  /\ pc # "start" =>
       /\ prepare_evals \in 0..2
       /\ given_zero => val_0 = value_at_zero
       /\ val_0 = [i \in Batch |-> Eval(prof[i], 0)]

\* C23's case: value_at_initial_step was supplied next to an initial_step_size
\* that differs from its step, and value_at_zero was not supplied.
C23_Witness ==
  /\ Prepared
  /\ given_initial
  /\ ~given_zero
  /\ \A i \in Batch : initial_step_size[i] # step[i]
  /\ prepare_evals = 1

\* The interval handed to bracketing, or returned when no member is active.
IsInitInterval == HasInterval /\ ~bracket_ran

\* C24: for a member supplied as converged, in the interval handed to
\* bracketing (or returned when no member is active) left is the evaluation at
\* zero and right the evaluation at the initial step, and the member's step was
\* not shrunk by the repair.
C24_PreConvergedInterval ==
  IsInitInterval =>
    \A i \in Batch :
      converged_arg[i] =>
        /\ res.left[i] = Eval(prof[i], 0)
        /\ res.right[i] = Eval(prof[i], step[i])
        /\ val_c[i].x = step[i]
        /\ ~to_fix[i]

\* C25: for every member that is neither failed nor converged in the interval
\* handed to bracket, left is the evaluation at zero, finite and with df < 0, and
\* right is an evaluation at a finite positive step with finite f and df.
C25_BracketPrecondition ==
  pc = "bracket" =>
    \A i \in Batch :
      (~res.failed[i] /\ ~res.converged[i]) =>
        /\ res.left[i] = Eval(prof[i], 0)
        /\ IsFiniteNum(res.left[i].f) /\ IsFiniteNum(res.left[i].df)
        /\ res.left[i].df < 0
        /\ IsFiniteNum(res.right[i].x) /\ res.right[i].x > 0
        /\ res.right[i] = Eval(prof[i], res.right[i].x)
        /\ IsFiniteNum(res.right[i].f) /\ IsFiniteNum(res.right[i].df)

\* C25's case: bracketing is entered with a member whose step was repaired,
\* next to one whose repair failed.
C25_Witness ==
  /\ pc = "bracket"
  /\ fix_i >= 1
  /\ \E i, j \in Batch :
       /\ ~res.failed[i] /\ ~res.converged[i] /\ res.right[i].x < step[i]
       /\ to_fix[j] /\ res.failed[j]

\* The flatness test of the last trip marked member i converged.
NewlyConverged(i) == last.next_args.converged[i] /\ ~last.secant2.converged[i]

\* C26: in a trip the members submitted to bisection are among those secant2
\* left neither converged nor failed and none of them was marked converged by
\* the flatness test; the midpoint test fails no converged member; and no
\* midpoint is evaluated when secant2 left every member converged or failed.
C26_BisectionMask ==
  last.trip =>
    /\ \A i \in Batch : last.needs[i] => Checked(i) /\ ~NewlyConverged(i)
    /\ \A i \in Batch :
         (last.next_args.failed[i] /\ ~last.secant2.failed[i])
           => ~last.next_args.converged[i]
    /\ (\A i \in Batch : ~Checked(i)) => ~last.bisected /\ ExtraCalls = 0

\* C26's case: in one trip a member was marked converged by the flatness test
\* and another one was bisected and failed at its midpoint.
C26_Witness ==
  /\ last.trip
  /\ last.bisected
  /\ \E i, j \in Batch :
       /\ NewlyConverged(i) /\ ~last.needs[i]
       /\ last.needs[j] /\ last.next_args.failed[j]

====
